---- MODULE Spec2Model ----
(***************************************************************************)
(* A model of src/src/utils.js of image-minimizer-webpack-plugin:          *)
(*   - throttleAll, the bounded task scheduler (specification Spec);       *)
(*   - the backend adapters imagemin / squoosh / sharp / svgo working on   *)
(*     one worker item (specification AdapterSpec);                        *)
(*   - the module-level squoosh image pool with its setup and teardown     *)
(*     and the adapter calls that use it (specification PoolSpec);         *)
(*   - the helpers fileTypeFromBuffer and replaceFileExtension             *)
(*     (specification UtilSpec);                                           *)
(*   - one function made by memoize and the calls of it (MemoSpec).        *)
(***************************************************************************)
EXTENDS Integers, Sequences, FiniteSets, TLC

VARIABLES
    \* ---- throttleAll(limit, tasks) ----
    limit,          \* the `limit` argument: [isInteger, num]
    tasksOk,        \* Array.isArray(tasks) && tasks.every(typeof === "function")
    n,              \* tasks.length
    pc,             \* "call" | "loop" | "async" | "threw"
    i,              \* the counter of the for loop of line 97
    entriesNext,    \* position of the iterator tasks.entries()
    tasksFulfilled, \* let tasksFulfilled
    result,         \* const result = [] (slot k of the JS array is result[k+1])
    taskState,      \* per task index: "queued" | "running" | "fulfilled" | "rejected"
    produced,       \* per task index: what its promise settled with
    jobs,           \* promise reaction jobs not yet run, in FIFO order
    batch,          \* the promise throttleAll returns: [state, value, reason]
    started,        \* history: task indices in the order task() was called
    settleOrder,    \* history: task indices in the order their promises settled
    firstFailed,    \* history: index of the first task whose promise rejected, -1 if none
    \* ---- one worker item passed through adapter calls ----
    arg,            \* the item handed to the last adapter call, as the call left it
    ret,            \* what the last call's promise settled with: [kind, item, fault, libFailed]
    before,         \* history: the item handed to the last call, as it was before
    call,           \* history: the last call: [adapter, config, options, lib]
    steps,          \* number of adapter calls made
    origin,         \* the item handed to the last call that returned a result, as
                    \* the caller who still holds it sees it now
    \* ---- the squoosh image pool ----
    pool,           \* let pool (line 739): 0 is undefined, else the id of an ImagePool
    pools,          \* every ImagePool created, by id: [shared, state, closes]
    calls,          \* the squooshMinify / squooshGenerate calls: [pc, isReusePool, imagePool, settled]
    teardowns,      \* the squooshImagePoolTeardown calls: [pc, closing]
    \* ---- one call of a pure helper ----
    sniffIn,        \* the argument of fileTypeFromBuffer: [type, bytes]
    sniffOut,       \* how the call ended: [kind, fileType]
    nameIn,         \* the arguments of replaceFileExtension: [filename, ext]
    nameOut,        \* what the call returned: [kind, filename]
    \* ---- one function made by memoize(fn) ----
    cache,          \* let cache (line 487)
    cachedResult,   \* let result (line 489)
    fn,             \* the parameter fn: "function", or "undefined" once line 501 ran
    running,        \* invocations of fn that have not ended yet (line 496), innermost last
    memoCalls,      \* number of calls of the memoized function made so far
    ended,          \* history: how each call that ended did so, in order: [kind, value]
    fnReturned,     \* history: the values fn returned normally, in order
    invoked,        \* history: number of invocations of fn
    reentered       \* history: a call was made while an invocation of fn was running

thrVars == <<limit, tasksOk, n, pc, i, entriesNext, tasksFulfilled, result,
             taskState, produced, jobs, batch, started, settleOrder, firstFailed>>

adVars == <<arg, ret, before, call, steps, origin>>

poolVars == <<pool, pools, calls, teardowns>>

utilVars == <<sniffIn, sniffOut, nameIn, nameOut>>

memoVars == <<cache, cachedResult, fn, running, memoCalls, ended, fnReturned,
              invoked, reentered>>

vars == <<thrVars, adVars, poolVars, utilVars, memoVars>>

\* ------------------------------------------------------------------ bounds
MaxLimit == 3
MaxTasks == 3
MaxSteps == 2
MaxCalls == 2
MaxTeardowns == 2
MaxPools == 2
MaxChunks == 3
MaxNameLen == 4
MaxMemoCalls == 4

Max(a, b) == IF a >= b THEN a ELSE b
Min(a, b) == IF a <= b THEN a ELSE b

\* ------------------------------------------------- values moved by promises
Values == {"a", "b"}
Value(v) == [kind |-> "value", task |-> -1, v |-> v]
Reason(t) == [kind |-> "reason", task |-> t, v |-> "boom"]
Hole == [kind |-> "hole", task |-> -1, v |-> ""]
Undefined == [kind |-> "undefined", task |-> -1, v |-> ""]

\* ------------------------------------------------------ fileTypeFromBuffer
\* A buffer is the sequence of its bytes; byte k of the JS buffer is buffer[k+1].
\* Reading past the end gives undefined, which equals no byte.
NoByte == -1
At(buffer, k) == IF k >= 0 /\ k < Len(buffer) THEN buffer[k + 1] ELSE NoByte

\* lines 170-189: check(header, {offset}); no caller passes a mask
check(buffer, header, offset) ==
    \A k \in 0..(Len(header) - 1) : header[k + 1] = At(buffer, k + offset)

\* lines 138-140: stringToBytes of the literals the sniffer uses
Bytes_ftyp == <<102, 116, 121, 112>>
Bytes_FUJIFILMCCD_RAW == <<70, 85, 74, 73, 70, 73, 76, 77, 67, 67, 68, 45, 82, 65, 87>>
Bytes_avif == <<97, 118, 105, 102>>
Bytes_mif1 == <<109, 105, 102, 49>>
Bytes_msf1 == <<109, 115, 102, 49>>
Bytes_heic == <<104, 101, 105, 99>>
Bytes_heix == <<104, 101, 105, 120>>
Bytes_hevc == <<104, 101, 118, 99>>
Bytes_hevx == <<104, 101, 118, 120>>

\* Uint8Array.prototype.findIndex with the predicates of lines 215-222 and
\* 226-232: the first index >= from where `pattern` lies, -1 if there is none
FindIndex(buffer, pattern, from) ==
    LET hits == {k \in from..(Len(buffer) - 1) : check(buffer, pattern, k)}
    IN  IF hits = {} THEN -1 ELSE CHOOSE k \in hits : \A h \in hits : k <= h

\* Uint8Array.prototype.subarray(begin, end): a negative index counts from the
\* end, both are clamped to the buffer
Subarray(buffer, begin, end) ==
    LET len == Len(buffer)
        rel(x) == IF x < 0 THEN Max(len + x, 0) ELSE Min(x, len)
    IN  IF rel(end) > rel(begin) THEN SubSeq(buffer, rel(begin) + 1, rel(end)) ELSE <<>>

\* lines 379-381: String.fromCodePoint(...buffer.slice(8, 12)).replace("\0", " ").trim()
JsWhitespace == {9, 10, 11, 12, 13, 32, 160}
ReplaceFirstNul(str) ==
    LET nul == {k \in DOMAIN str : str[k] = 0}
    IN  IF nul = {} THEN str
        ELSE [k \in DOMAIN str |->
                IF k = (CHOOSE m \in nul : \A o \in nul : m <= o) THEN 32 ELSE str[k]]
Trim(str) ==
    LET keep == {k \in DOMAIN str : str[k] \notin JsWhitespace}
    IN  IF keep = {} THEN <<>>
        ELSE SubSeq(str, CHOOSE a \in keep : \A b \in keep : a <= b,
                         CHOOSE a \in keep : \A b \in keep : a >= b)
brandMajor(buffer) == Trim(ReplaceFirstNul(Subarray(buffer, 8, 12)))

\* line 375: (buffer[8] & 0x60) !== 0x00; undefined & 0x60 is 0
BrandByteIsAscii(buffer) ==
    At(buffer, 8) # NoByte /\ (At(buffer, 8) \div 32) % 4 # 0

FileType(ext, mime) == [ext |-> ext, mime |-> mime]
NoMatch == FileType("", "")
TiffLE == <<\H49, \H49, \H2a, \H00>>
TiffBE == <<\H4d, \H4d, \H00, \H2a>>
Jp2Signature ==
    <<\H00, \H00, \H00, \H0c, \H6a, \H50, \H20, \H20, \H0d, \H0a, \H87, \H0a>>

\* lines 206-244: a buffer with the PNG signature is apng or png
pngOrApng(buffer) ==
    LET startIndex == 33
        firstImageDataChunkIndex ==
            FindIndex(buffer, <<\H49, \H44, \H41, \H54>>, startIndex)
        sliced == Subarray(buffer, startIndex, firstImageDataChunkIndex)
    IN  IF FindIndex(sliced, <<\H61, \H63, \H54, \H4c>>, 0) >= 0
        THEN FileType("apng", "image/apng")
        ELSE FileType("png", "image/png")

\* lines 372-398: the ftyp box; NoMatch when the brand is none of the cases
ftypBrandOrMp4(buffer) ==
    LET brand == brandMajor(buffer)
    IN  CASE brand = Bytes_avif -> FileType("avif", "image/avif")
          [] brand = Bytes_mif1 -> FileType("heic", "image/heif")
          [] brand = Bytes_msf1 -> FileType("heic", "image/heif-sequence")
          [] brand \in {Bytes_heic, Bytes_heix} -> FileType("heic", "image/heic")
          [] brand \in {Bytes_hevc, Bytes_hevx} -> FileType("heic", "image/heic-sequence")
          [] OTHER -> FileType("mp4", "video/mp4")
ftypBrand(buffer) ==
    LET brand == brandMajor(buffer)
    IN  CASE brand = Bytes_avif -> FileType("avif", "image/avif")
          [] brand = Bytes_mif1 -> FileType("heic", "image/heif")
          [] brand = Bytes_msf1 -> FileType("heic", "image/heif-sequence")
          [] brand \in {Bytes_heic, Bytes_heix} -> FileType("heic", "image/heic")
          [] brand \in {Bytes_hevc, Bytes_hevx} -> FileType("heic", "image/heic-sequence")
          [] OTHER -> NoMatch

\* lines 421-455: the JPEG-2000 family; NoMatch when the brand is none of the four
jpeg2000Brand(buffer) ==
    CASE check(buffer, <<\H6a, \H70, \H32, \H20>>, 20) -> FileType("jp2", "image/jp2")
      [] check(buffer, <<\H6a, \H70, \H78, \H20>>, 20) -> FileType("jpx", "image/jpx")
      [] check(buffer, <<\H6a, \H70, \H6d, \H20>>, 20) -> FileType("jpm", "image/jpm")
      [] check(buffer, <<\H6d, \H6a, \H70, \H32>>, 20) -> FileType("mj2", "image/mj2")
      [] OTHER -> NoMatch

\* lines 400-478: the rules after the ftyp box
afterFtyp(buffer) ==
    IF check(buffer, <<\H00, \H00, \H01, \H00>>, 0) THEN FileType("ico", "image/x-icon")
    ELSE IF check(buffer, <<\H00, \H00, \H02, \H00>>, 0) THEN FileType("cur", "image/x-icon")
    ELSE IF check(buffer, <<\H42, \H50, \H47, \Hfb>>, 0) THEN FileType("bpg", "image/bpg")
    ELSE IF check(buffer, Jp2Signature, 0) /\ jpeg2000Brand(buffer) # NoMatch
         THEN jpeg2000Brand(buffer)
    ELSE IF \/ check(buffer, <<\Hff, \H0a>>, 0)
            \/ check(buffer, <<\H00, \H00, \H00, \H0c, \H4a, \H58, \H4c, \H20,
                               \H0d, \H0a, \H87, \H0a>>, 0)
         THEN FileType("jxl", "image/jxl")
    ELSE IF check(buffer, <<\Hab, \H4b, \H54, \H58, \H20, \H31, \H31, \Hbb,
                            \H0d, \H0a, \H1a, \H0a>>, 0)
         THEN FileType("ktx", "image/ktx")
    ELSE NoMatch

\* lines 267-349: the camera raw rules and the TIFF rule
tiffBeforeRaw(buffer) ==
    IF check(buffer, TiffLE, 0) \/ check(buffer, TiffBE, 0)
    THEN FileType("tif", "image/tiff")
    ELSE NoMatch
rawOrTiff(buffer) ==
    IF (check(buffer, TiffLE, 0) \/ check(buffer, TiffBE, 0))
       /\ check(buffer, <<\H43, \H52>>, 8)
    THEN FileType("cr2", "image/x-canon-cr2")
    ELSE IF check(buffer, <<\H49, \H49, \H52, \H4f, \H08, \H00, \H00, \H00, \H18>>, 0)
    THEN FileType("orf", "image/x-olympus-orf")
    ELSE IF /\ check(buffer, TiffLE, 0)
            /\ \/ check(buffer, <<\H10, \Hfb, \H86, \H01>>, 4)
               \/ check(buffer, <<\H08, \H00, \H00, \H00>>, 4)
            /\ check(buffer, <<\H00, \Hfe, \H00, \H04, \H00, \H01, \H00, \H00, \H00,
                               \H01, \H00, \H00, \H00, \H03, \H01>>, 9)
    THEN FileType("arw", "image/x-sony-arw")
    ELSE IF /\ check(buffer, <<\H49, \H49, \H2a, \H00, \H08, \H00, \H00, \H00>>, 0)
            /\ \/ check(buffer, <<\H2d, \H00, \Hfe, \H00>>, 8)
               \/ check(buffer, <<\H27, \H00, \Hfe, \H00>>, 8)
    THEN FileType("dng", "image/x-adobe-dng")
    ELSE IF check(buffer, TiffLE, 0) /\ check(buffer, <<\H1c, \H00, \Hfe, \H00>>, 8)
    THEN FileType("nef", "image/x-nikon-nef")
    ELSE IF check(buffer, <<\H49, \H49, \H55, \H00, \H18, \H00, \H00, \H00,
                            \H88, \He7, \H74, \Hd8>>, 0)
    THEN FileType("rw2", "image/x-panasonic-rw2")
    ELSE IF check(buffer, Bytes_FUJIFILMCCD_RAW, 0)
    THEN FileType("raf", "image/x-fujifilm-raf")
    ELSE IF check(buffer, TiffLE, 0) \/ check(buffer, TiffBE, 0)
    THEN FileType("tif", "image/tiff")
    ELSE NoMatch

\* lines 146-479: fileTypeFromBuffer on the bytes of a Uint8Array, Buffer or
\* ArrayBuffer; NoMatch is the undefined it returns when no rule matches
fileTypeFromBuffer(buffer) ==
    IF ~(Len(buffer) > 1) THEN NoMatch
    ELSE IF check(buffer, <<\Hff, \Hd8, \Hff>>, 0) THEN FileType("jpg", "image/jpeg")
    ELSE IF check(buffer, <<\H89, \H50, \H4e, \H47, \H0d, \H0a, \H1a, \H0a>>, 0)
         THEN pngOrApng(buffer)
    ELSE IF check(buffer, <<\H47, \H49, \H46>>, 0) THEN FileType("gif", "image/gif")
    ELSE IF check(buffer, <<\H57, \H45, \H42, \H50>>, 8) THEN FileType("webp", "image/webp")
    ELSE IF check(buffer, <<\H46, \H4c, \H49, \H46>>, 0) THEN FileType("flif", "image/flif")
    ELSE IF rawOrTiff(buffer) # NoMatch THEN rawOrTiff(buffer)
    ELSE IF check(buffer, <<\H42, \H4d>>, 0) THEN FileType("bmp", "image/bmp")
    ELSE IF check(buffer, <<\H49, \H49, \Hbc>>, 0) THEN FileType("jxr", "image/vnd.ms-photo")
    ELSE IF check(buffer, <<\H38, \H42, \H50, \H53>>, 0)
         THEN FileType("psd", "image/vnd.adobe.photoshop")
    ELSE IF /\ check(buffer, Bytes_ftyp, 4)
            /\ BrandByteIsAscii(buffer)
            /\ ftypBrand(buffer) # NoMatch
         THEN ftypBrand(buffer)
    ELSE afterFtyp(buffer)

\* ------------------------------------------------------------- file names
\* A file name is the sequence of its characters. A run of letters and digits
\* that the code never looks into ("img", "png") is one element; the
\* characters the code tests are elements of their own.
Sep == "/"
Backslash == "\\"
Dot == "."
Colon == ":"
Letters == {"C", "h"}                       \* one letter [a-zA-Z]
Names == {"img", "dir", "abs", "https", "PNG", "txt", "sfx"}
Formats == {"png", "webp", "svg", "jpg", "jpeg", "avif", "gif", "apng"}
Words == Letters \cup Names \cup Formats

Lower(w) == IF w = "PNG" THEN "png" ELSE IF w = "C" THEN "c" ELSE w

Range(f) == {f[k] : k \in DOMAIN f}

LastIndex(str, set) ==      \* the last 1-based position holding an element of set, 0 if none
    LET hits == {k \in DOMAIN str : str[k] \in set}
    IN  IF hits = {} THEN 0 ELSE CHOOSE k \in hits : \A h \in hits : k >= h

replaceAtLastDotOfPath(filename, ext) ==
    LET dotIndex == LastIndex(filename, {Dot}) - 1
    IN  IF dotIndex = -1 THEN filename
        ELSE SubSeq(filename, 1, dotIndex) \o <<Dot, ext>>
\* lines 20-41
replaceFileExtension(filename, ext) ==
    LET stop == LastIndex(filename, {Dot, Sep, Backslash})
        dotIndex == IF stop > 0 /\ filename[stop] = Dot THEN stop - 1 ELSE -1
    IN  IF dotIndex = -1 THEN filename
        ELSE SubSeq(filename, 1, dotIndex) \o <<Dot, ext>>

\* lines 103-117
WINDOWS_PATH_REGEX(url) ==
    Len(url) >= 3 /\ url[1] \in Letters /\ url[2] = Colon /\ url[3] = Backslash
POSIX_PATH_REGEX(url) == Len(url) >= 1 /\ url[1] = Sep
ABSOLUTE_URL_REGEX(url) ==
    /\ Len(url) >= 2
    /\ url[1] \in Words
    /\ \E k \in 2..Len(url) :
          /\ url[k] = Colon
          /\ \A j \in 2..(k - 1) : url[j] \in Words \cup {Dot}
isAbsoluteURL(url) ==
    WINDOWS_PATH_REGEX(url) \/ POSIX_PATH_REGEX(url) \/ ABSOLUTE_URL_REGEX(url)

\* path.extname(filename) of node's posix path module, as used in lines 652,
\* 708, 906, 1066 and 1253: the characters from the last "." of the last path
\* segment on; "" when that segment has no ".", starts with its only "." or
\* is "..". Trailing "/" are skipped.
extname(filename) ==
    LET end == LastIndex(filename, (Range(filename) \ {Sep}))
        startPart == LastIndex(SubSeq(filename, 1, end), {Sep}) + 1
        lastDot == LastIndex(SubSeq(filename, 1, end), {Dot})
        startDot == IF lastDot >= startPart THEN lastDot ELSE 0
    IN  IF startDot = 0 \/ end = 0 THEN <<>>
        ELSE IF startDot = startPart THEN <<>>
        ELSE IF startDot = end /\ startDot = startPart + 1 /\ filename[startPart] = Dot
             THEN <<>>
        ELSE SubSeq(filename, startDot, end)

\* path.extname(original.filename).slice(1).toLowerCase()
inputExt(filename) ==
    LET e == extname(filename)
    IN  IF Len(e) <= 1 THEN ""
        ELSE IF Len(e) = 2 THEN Lower(e[2])
        ELSE "<several characters>"

\* ------------------------------------------------------------ worker items
\* info: the keys the adapters write and one key they do not know
Info(width, height, minimized, minimizedBy, generated, generatedBy, other) ==
    [width |-> width, height |-> height, minimized |-> minimized,
     minimizedBy |-> minimizedBy, generated |-> generated,
     generatedBy |-> generatedBy, other |-> other]
NoInfo == Info(0, 0, FALSE, <<>>, FALSE, <<>>, "related")

\* warnings and errors are JS arrays: objects that several items may hold.
\* id tells which array object it is, elems what it holds. [...list] makes a
\* new array object with the same elements; along the chain of items that one
\* caller passes from call to call the ids only grow, so id + 1 is an array
\* no item holds yet.
List(id, elems) == [id |-> id, elems |-> elems]
SpreadShares(list) == list
Spread(list) == List(list.id + 1, list.elems)

WorkerResult(filename, data, warnings, errors, info) ==
    [filename |-> filename, data |-> data, warnings |-> warnings,
     errors |-> errors, info |-> info]

\* the Error objects the adapters create, by the text of their message
ErrorWith(filename) == [message |-> "Error with", filename |-> filename]
ErrorNoResult(filename) == [message |-> "No result from", filename |-> filename]
ErrorMultiple(filename) == [message |-> "Multiple values", filename |-> filename]
ErrorUnsupported(filename) ==
    [message |-> "Input file has an unsupported format", filename |-> filename]
WarnUseGenerate(filename) ==
    [message |-> "do not support generate", filename |-> filename]

\* what an adapter call comes to: the item it was given as the call left it,
\* what the returned promise settled with, and whether a call into the
\* external library failed on the way
NoItem == WorkerResult(<<>>, <<>>, List(0, <<>>), List(0, <<>>), NoInfo)
Returned(original, item) ==
    [original |-> original, kind |-> "item", item |-> item, fault |-> "", libFailed |-> FALSE]
ReturnedNull(original, libFailed) ==
    [original |-> original, kind |-> "null", item |-> NoItem, fault |-> "",
     libFailed |-> libFailed]
Rejected(original, fault, libFailed) ==
    [original |-> original, kind |-> "rejected", item |-> NoItem, fault |-> fault,
     libFailed |-> libFailed]
PushError(original, error) == [original EXCEPT !.errors.elems = Append(@, error)]
PushWarning(original, warning) == [original EXCEPT !.warnings.elems = Append(@, warning)]

\* ------------------------------------------------------------------ imagemin
\* lines 529-614: imageminNormalizeConfig throws for a configuration without
\* plugins, with a plugin that is neither a string nor an array, or with a
\* plugin that cannot be imported
ImageminConfigs == {"ok", "no plugins", "invalid plugin", "unknown plugin"}
imageminNormalizeConfigAllowsNoPlugins(config) ==
    CASE config = "invalid plugin" -> "InvalidConfigError"
      [] config = "unknown plugin" -> "Error: Unknown plugin"
      [] OTHER -> ""
imageminNormalizeConfig(config) ==
    CASE config = "no plugins" -> "Error: No plugins found"
      [] config = "invalid plugin" -> "InvalidConfigError"
      [] config = "unknown plugin" -> "Error: Unknown plugin"
      [] OTHER -> ""

\* lines 680-734. lib.throws: imagemin.buffer() rejects; lib.out: the bytes it
\* resolves with
imageminMinify(original, config, lib) ==
    IF imageminNormalizeConfig(config) # ""
    THEN Rejected(original, imageminNormalizeConfig(config), FALSE)
    ELSE IF lib.throws
    THEN ReturnedNull(PushError(original, ErrorWith(original.filename)), TRUE)
    ELSE LET extOutput == fileTypeFromBuffer(lib.out).ext
         IN  IF /\ ~isAbsoluteURL(original.filename)
                /\ extOutput # ""
                /\ inputExt(original.filename) # extOutput
             THEN ReturnedNull(PushWarning(original, WarnUseGenerate(original.filename)),
                               FALSE)
             ELSE Returned(original,
                    WorkerResult(original.filename, lib.out,
                    Spread(original.warnings), Spread(original.errors),
                        [original.info EXCEPT
                            !.minimized = TRUE,
                            !.minimizedBy = <<"imagemin">> \o @]))

\* lines 622-672
imageminGenerate(original, config, lib) ==
    IF imageminNormalizeConfig(config) # ""
    THEN Rejected(original, imageminNormalizeConfig(config), FALSE)
    ELSE IF lib.throws
    THEN ReturnedNull(PushError(original, ErrorWith(original.filename)), TRUE)
    ELSE LET extOutput == fileTypeFromBuffer(lib.out).ext
             newFilename ==
                IF extOutput # "" /\ inputExt(original.filename) # extOutput
                THEN replaceFileExtension(original.filename, extOutput)
                ELSE original.filename
         IN  Returned(original,
                WorkerResult(newFilename, lib.out,
                    Spread(original.warnings), Spread(original.errors),
                    [original.info EXCEPT
                        !.generated = TRUE,
                        !.generatedBy = <<"imagemin">> \o @]))

\* ------------------------------------------------------------------- squoosh
\* lines 889-904: the encoders table of @squoosh/lib, codec -> extension, and
\* the targets built from it
SquooshCodecs == {"mozjpeg", "webp", "oxipng", "avif"}
SquooshExtension(codec) ==
    CASE codec = "mozjpeg" -> "jpg"
      [] codec = "oxipng" -> "png"
      [] OTHER -> codec
targets(ext) ==
    LET codecs == {c \in SquooshCodecs :
                      \/ SquooshExtension(c) = ext
                      \/ SquooshExtension(c) = "jpg" /\ ext = "jpeg"}
    IN  IF codecs = {} THEN "" ELSE CHOOSE c \in codecs : TRUE

\* lines 886-975. options.preproc: some option names a preprocessor (lines
\* 918-930); lib.preprocFails: image.preprocess() rejects; lib.throws:
\* image.encode() rejects; lib.out, lib.dim: the encoded bytes and the size of
\* the decoded bitmap
squooshMinify(original, options, lib) ==
    IF targets(inputExt(original.filename)) = ""
    THEN ReturnedNull(original, FALSE)
    ELSE IF options.preproc /\ lib.preprocFails
    THEN Rejected(original, "external", TRUE)
    ELSE IF lib.throws
    THEN ReturnedNull(PushError(original, ErrorWith(original.filename)), TRUE)
    ELSE Returned(original,
            WorkerResult(original.filename, lib.out,
                    Spread(original.warnings), Spread(original.errors),
                [original.info EXCEPT
                    !.width = lib.dim,
                    !.height = lib.dim,
                    !.minimized = TRUE,
                    !.minimizedBy = <<"squoosh">> \o @]))

\* lines 790-874. options.keys: the codecs named in encodeOptions, which are
\* the keys of image.encodedWith after encode()
squooshGenerate(original, options, lib) ==
    IF options.preproc /\ lib.preprocFails
    THEN Rejected(original, "external", TRUE)
    ELSE IF lib.throws
    THEN ReturnedNull(PushError(original, ErrorWith(original.filename)), TRUE)
    ELSE IF Cardinality(options.keys) = 0
    THEN ReturnedNull(PushError(original, ErrorNoResult(original.filename)), FALSE)
    ELSE IF Cardinality(options.keys) > 1
    THEN ReturnedNull(PushError(original, ErrorMultiple(original.filename)), FALSE)
    ELSE LET extension == SquooshExtension(CHOOSE c \in options.keys : TRUE)
         IN  Returned(original,
                WorkerResult(replaceFileExtension(original.filename, extension),
                    lib.out, Spread(original.warnings), Spread(original.errors),
                    [original.info EXCEPT
                        !.width = lib.dim,
                        !.height = lib.dim,
                        !.generated = TRUE,
                        !.generatedBy = <<"squoosh">> \o @]))

\* --------------------------------------------------------------------- sharp
\* lines 1018-1053: the keys of the two maps
SharpFormatsOfOneTable ==
    {"avif", "gif", "heic", "heif", "j2c", "j2k", "jp2", "jpeg", "jpg", "jpx",
     "png", "raw", "svg", "tif", "tiff", "webp"}
SHARP_MINIFY_FORMATS ==
    {"avif", "gif", "heic", "heif", "j2c", "j2k", "jp2", "jpeg", "jpg", "jpx",
     "png", "raw", "tif", "tiff", "webp"}
SHARP_GENERATE_FORMATS == SHARP_MINIFY_FORMATS \cup {"svg"}

\* lines 1061-1184. targetFormat "" is null. lib.throws: one of the calls into
\* sharp (sharp(), metadata(), toFormat(), toBuffer()) throws or rejects;
\* lib.out, lib.dim: result.data and result.info; options.suffix:
\* sizeSuffix is a function, whose text is the one element "sfx"
sharpTransform(original, options, targetFormat, lib) ==
    LET ext == inputExt(original.filename)
        supported == IF targetFormat = "" THEN ext \in SHARP_MINIFY_FORMATS
                     ELSE ext \in SHARP_GENERATE_FORMATS
        outputExt == IF targetFormat # "" THEN targetFormat ELSE ext
        sizeSuffix == IF options.suffix THEN <<"sfx">> ELSE <<>>
        dotIndex == LastIndex(original.filename, {Dot}) - 1
        filename == IF dotIndex > -1
                    THEN SubSeq(original.filename, 1, dotIndex) \o sizeSuffix
                            \o <<Dot, outputExt>>
                    ELSE original.filename
    IN  IF ~supported
        THEN IF targetFormat # ""
             THEN ReturnedNull(PushError(original, ErrorUnsupported(original.filename)),
                               FALSE)
             ELSE ReturnedNull(original, FALSE)
        ELSE IF lib.throws
        THEN Rejected(original, "external", TRUE)
        ELSE Returned(original,
                WorkerResult(filename, lib.out,
                    Spread(original.warnings), Spread(original.errors),
                    IF targetFormat # ""
                    THEN [original.info EXCEPT
                            !.width = lib.dim,
                            !.height = lib.dim,
                            !.generated = TRUE,
                            !.generatedBy = <<"sharp">> \o @]
                    ELSE [original.info EXCEPT
                            !.width = lib.dim,
                            !.height = lib.dim,
                            !.minimized = TRUE,
                            !.minimizedBy = <<"sharp">> \o @]))

\* lines 1192-1220. options.keys: Object.keys(encodeOptions)
sharpGenerate(original, options, lib) ==
    IF Cardinality(options.keys) = 0
    THEN ReturnedNull(PushError(original, ErrorNoResult(original.filename)), FALSE)
    ELSE IF Cardinality(options.keys) > 1
    THEN ReturnedNull(PushError(original, ErrorMultiple(original.filename)), FALSE)
    ELSE sharpTransform(original, options, CHOOSE f \in options.keys : TRUE, lib)

\* lines 1228-1233
sharpMinify(original, options, lib) == sharpTransform(original, options, "", lib)

\* ---------------------------------------------------------------------- svgo
\* lines 1252-1292. lib.throws: optimize() throws
svgoMinifyResetsProvenance(original, lib) ==
    IF inputExt(original.filename) # "svg"
    THEN ReturnedNull(original, FALSE)
    ELSE IF lib.throws
    THEN ReturnedNull(PushError(original, ErrorWith(original.filename)), TRUE)
    ELSE Returned(original,
            WorkerResult(original.filename, lib.out,
                Spread(original.warnings), Spread(original.errors),
                [original.info EXCEPT
                    !.minimized = TRUE,
                    !.minimizedBy = <<"svgo">>]))
svgoMinify(original, lib) ==
    IF inputExt(original.filename) # "svg"
    THEN ReturnedNull(original, FALSE)
    ELSE IF lib.throws
    THEN ReturnedNull(PushError(original, ErrorWith(original.filename)), TRUE)
    ELSE Returned(original,
            WorkerResult(original.filename, lib.out,
                    Spread(original.warnings), Spread(original.errors),
                [original.info EXCEPT
                    !.minimized = TRUE,
                    !.minimizedBy = <<"svgo">> \o @]))

\* ------------------------------------------------------------- throttleAll
\* The arguments a caller may pass. A limit that is not an integer (1.5, NaN,
\* "2", undefined) is [isInteger |-> FALSE]; num is then the number it would
\* compare as in `limit < 1`.
LimitInputs ==
    {[isInteger |-> TRUE, num |-> k] : k \in -1..MaxLimit}
        \cup {[isInteger |-> FALSE, num |-> 1]}

Tasks == 0..(n - 1)

LimitInvalidClampsToOne(l) == ~l.isInteger
\* line 51: !Number.isInteger(limit) || limit < 1
LimitInvalid(l) == ~l.isInteger \/ l.num < 1

\* line 66: new Promise((resolve, reject) => ...): resolve and reject settle a
\* pending promise and do nothing to a settled one.
Resolve(p, v) ==
    IF p.state = "pending" THEN [p EXCEPT !.state = "resolved", !.value = v] ELSE p

RejectOverwrites(p, r) == [p EXCEPT !.state = "rejected", !.reason = r]
Reject(p, r) ==
    IF p.state = "pending" THEN [p EXCEPT !.state = "rejected", !.reason = r] ELSE p

\* line 89: result[index] = taskResult, on a JS array: the array grows to
\* index + 1 and the slots it skips are holes.
StoreInCompletionOrder(arr, index, v) == Append(arr, v)
Store(arr, index, v) ==
    [k \in 1..Max(Len(arr), index + 1) |->
        IF k = index + 1 THEN v ELSE IF k <= Len(arr) THEN arr[k] ELSE Hole]

\* line 75: tasksFulfilled === tasks.length
ResolveAlways(tf) == TRUE
ResolveWhenSomeFulfilled(tf) == tf = n /\ tf > 0
AllFulfilled(tf) == tf = n

\* line 97: i < limit
LoopGuardOffByOne == i <= limit.num
LoopGuard == i < limit.num

\* what throttleAll leaves alone
ThrottleFrame == UNCHANGED <<adVars, poolVars, utilVars, memoVars>>

\* lines 71-95: next(), called with the current tasksFulfilled and result.
next(tf, res) ==
    IF entriesNext >= n
    THEN \* lines 74-81: the iterator is done
         /\ batch' = IF AllFulfilled(tf) THEN Resolve(batch, res) ELSE batch
         /\ UNCHANGED <<entriesNext, taskState, started>>
    ELSE \* lines 83-94: const [index, task] = value; task().then(onFulfilled, reject)
         /\ entriesNext' = entriesNext + 1
         /\ taskState' = [taskState EXCEPT ![entriesNext] = "running"]
         /\ started' = Append(started, entriesNext)
         /\ batch' = batch

\* lines 50-66: the argument checks, then the promise executor starts.
Call ==
    /\ ThrottleFrame
    /\ pc = "call"
    /\ IF LimitInvalid(limit) \/ ~tasksOk
       THEN pc' = "threw"
       ELSE pc' = "loop"
    /\ UNCHANGED <<limit, tasksOk, n, i, entriesNext, tasksFulfilled, result,
                   taskState, produced, jobs, batch, started, settleOrder, firstFailed>>

\* lines 97-99: one iteration of the for loop.
LoopStep ==
    /\ ThrottleFrame
    /\ pc = "loop"
    /\ LoopGuard
    /\ next(tasksFulfilled, result)
    /\ i' = i + 1
    /\ UNCHANGED <<limit, tasksOk, n, pc, tasksFulfilled, result, produced, jobs,
                   settleOrder, firstFailed>>

\* line 100: the loop ends and the executor returns; from here on only
\* promise reaction jobs run.
ExecutorReturn ==
    /\ ThrottleFrame
    /\ pc = "loop"
    /\ ~LoopGuard
    /\ pc' = "async"
    /\ UNCHANGED <<limit, tasksOk, n, i, entriesNext, tasksFulfilled, result,
                   taskState, produced, jobs, batch, started, settleOrder, firstFailed>>

\* line 94: the promise task() returned fulfils; its reaction onFulfilled is queued.
TaskFulfils(t, v) ==
    /\ ThrottleFrame
    /\ taskState[t] = "running"
    /\ taskState' = [taskState EXCEPT ![t] = "fulfilled"]
    /\ produced' = [produced EXCEPT ![t] = Value(v)]
    /\ jobs' = Append(jobs, t)
    /\ settleOrder' = Append(settleOrder, t)
    /\ UNCHANGED <<limit, tasksOk, n, pc, i, entriesNext, tasksFulfilled, result,
                   batch, started, firstFailed>>

\* line 94: the promise task() returned rejects; its reaction reject is queued.
TaskRejects(t) ==
    /\ ThrottleFrame
    /\ taskState[t] = "running"
    /\ taskState' = [taskState EXCEPT ![t] = "rejected"]
    /\ produced' = [produced EXCEPT ![t] = Reason(t)]
    /\ jobs' = Append(jobs, t)
    /\ settleOrder' = Append(settleOrder, t)
    /\ firstFailed' = IF firstFailed = -1 THEN t ELSE firstFailed
    /\ UNCHANGED <<limit, tasksOk, n, pc, i, entriesNext, tasksFulfilled, result,
                   batch, started>>

OnFulfilledWithoutNext ==
    /\ ThrottleFrame
    /\ pc = "async"
    /\ jobs # <<>>
    /\ taskState[Head(jobs)] = "fulfilled"
    /\ jobs' = Tail(jobs)
    /\ result' = Store(result, Head(jobs), produced[Head(jobs)])
    /\ tasksFulfilled' = tasksFulfilled + 1
    /\ UNCHANGED <<limit, tasksOk, n, pc, i, entriesNext, taskState, produced, batch,
                   started, settleOrder, firstFailed>>

\* lines 88-92: onFulfilled(taskResult) runs as a reaction job.
OnFulfilled ==
    /\ ThrottleFrame
    /\ pc = "async"
    /\ jobs # <<>>
    /\ taskState[Head(jobs)] = "fulfilled"
    /\ jobs' = Tail(jobs)
    /\ result' = Store(result, Head(jobs), produced[Head(jobs)])
    /\ tasksFulfilled' = tasksFulfilled + 1
    /\ next(tasksFulfilled + 1, Store(result, Head(jobs), produced[Head(jobs)]))
    /\ UNCHANGED <<limit, tasksOk, n, pc, i, produced, settleOrder, firstFailed>>

OnRejectedSwallows ==
    /\ ThrottleFrame
    /\ pc = "async"
    /\ jobs # <<>>
    /\ taskState[Head(jobs)] = "rejected"
    /\ jobs' = Tail(jobs)
    /\ UNCHANGED <<limit, tasksOk, n, pc, i, entriesNext, tasksFulfilled, result,
                   taskState, produced, batch, started, settleOrder, firstFailed>>

OnRejectedCallsNext ==
    /\ ThrottleFrame
    /\ pc = "async"
    /\ jobs # <<>>
    /\ taskState[Head(jobs)] = "rejected"
    /\ jobs' = Tail(jobs)
    /\ next(tasksFulfilled, result)
    /\ UNCHANGED <<limit, tasksOk, n, pc, i, tasksFulfilled, result, produced,
                   settleOrder, firstFailed>>

\* line 94: reject(reason) runs as a reaction job.
OnRejected ==
    /\ ThrottleFrame
    /\ pc = "async"
    /\ jobs # <<>>
    /\ taskState[Head(jobs)] = "rejected"
    /\ jobs' = Tail(jobs)
    /\ batch' = Reject(batch, produced[Head(jobs)])
    /\ UNCHANGED <<limit, tasksOk, n, pc, i, entriesNext, tasksFulfilled, result,
                   taskState, produced, started, settleOrder, firstFailed>>

ThrottleInit ==
    /\ limit \in LimitInputs
    /\ tasksOk \in BOOLEAN
    /\ n \in 0..MaxTasks
    /\ pc = "call"
    /\ i = 0
    /\ entriesNext = 0
    /\ tasksFulfilled = 0
    /\ result = <<>>
    /\ taskState = [t \in 0..(n - 1) |-> "queued"]
    /\ produced = [t \in 0..(n - 1) |-> Undefined]
    /\ jobs = <<>>
    /\ batch = [state |-> "pending", value |-> <<>>, reason |-> Undefined]
    /\ started = <<>>
    /\ settleOrder = <<>>
    /\ firstFailed = -1

\* ------------------------------------------------------- the adapter calls
PngBytes == <<\H89, \H50, \H4e, \H47, \H0d, \H0a, \H1a, \H0a>>
WebpBytes == <<\H52, \H49, \H46, \H46, \H00, \H00, \H00, \H00, \H57, \H45, \H42, \H50>>
UnknownBytes == <<\H01, \H02, \H03>>
OutBuffers == {PngBytes, WebpBytes, UnknownBytes}
Dims == {10, 20}

FileNames ==
    { <<"dir", Sep, "img", Dot, "png">>,
      <<Sep, "abs", Sep, "img", Dot, "png">>,
      <<"C", Colon, Backslash, "img", Dot, "png">>,
      <<"https", Colon, Sep, Sep, "h", Sep, "img", Dot, "PNG">>,
      <<"img">>,
      <<"img", Dot, "svg">> }

Options(preproc, keys, suffix) == [preproc |-> preproc, keys |-> keys, suffix |-> suffix]
NoOptions == Options(FALSE, {}, FALSE)
Lib(throws, preprocFails, out, dim) ==
    [throws |-> throws, preprocFails |-> preprocFails, out |-> out, dim |-> dim]
\* the ways a library call ends: it fails, or it yields bytes and a size
LibThrows == Lib(TRUE, FALSE, <<>>, 0)
LibPreprocFails == Lib(FALSE, TRUE, <<>>, 0)
LibYields(outs, dims) == {Lib(FALSE, FALSE, o, d) : o \in outs, d \in dims}

\* the item the caller hands to the next step: the last result, or the item
\* itself when the last step returned null or failed
NextInput == IF ret.kind = "item" THEN ret.item ELSE arg

\* an array object has one state, whoever holds it: what `held` shows after
\* a call has left `item` as it is
Seen(held, item) ==
    [held EXCEPT !.warnings = IF @.id = item.warnings.id THEN item.warnings ELSE @,
                 !.errors = IF @.id = item.errors.id THEN item.errors ELSE @]

Apply(adapter, config, options, lib, outcome) ==
    /\ steps < MaxSteps
    /\ origin' = IF outcome.kind = "item" THEN outcome.original
                 ELSE Seen(origin, outcome.original)
    /\ before' = NextInput
    /\ arg' = outcome.original
    /\ ret' = [kind |-> outcome.kind, item |-> outcome.item, fault |-> outcome.fault,
               libFailed |-> outcome.libFailed]
    /\ call' = [adapter |-> adapter, config |-> config, options |-> options, lib |-> lib]
    /\ steps' = steps + 1
    /\ UNCHANGED <<thrVars, poolVars, utilVars, memoVars>>

ImageminMinifyCall ==
    \E config \in ImageminConfigs, lib \in {LibThrows} \cup LibYields(OutBuffers, {0}) :
        /\ config # "ok" => lib = LibThrows
        /\ Apply("imageminMinify", config, NoOptions, lib,
                 imageminMinify(NextInput, config, lib))

ImageminGenerateCall ==
    \E config \in ImageminConfigs, lib \in {LibThrows} \cup LibYields(OutBuffers, {0}) :
        /\ config # "ok" => lib = LibThrows
        /\ Apply("imageminGenerate", config, NoOptions, lib,
                 imageminGenerate(NextInput, config, lib))

SquooshMinifyCall ==
    \E preproc \in BOOLEAN,
       lib \in {LibThrows, LibPreprocFails} \cup LibYields({WebpBytes}, Dims) :
        /\ lib.preprocFails => preproc
        /\ Apply("squooshMinify", "", Options(preproc, {}, FALSE), lib,
                 squooshMinify(NextInput, Options(preproc, {}, FALSE), lib))

SquooshGenerateCall ==
    \E preproc \in BOOLEAN, keys \in {{}, {"webp"}, {"webp", "mozjpeg"}},
       lib \in {LibThrows, LibPreprocFails} \cup LibYields({WebpBytes}, Dims) :
        /\ lib.preprocFails => preproc
        /\ Apply("squooshGenerate", "", Options(preproc, keys, FALSE), lib,
                 squooshGenerate(NextInput, Options(preproc, keys, FALSE), lib))

SharpMinifyCall ==
    \E suffix \in BOOLEAN, lib \in {LibThrows} \cup LibYields({PngBytes}, Dims) :
        Apply("sharpMinify", "", Options(FALSE, {}, suffix), lib,
              sharpMinify(NextInput, Options(FALSE, {}, suffix), lib))

SharpGenerateCall ==
    \E suffix \in BOOLEAN, keys \in {{}, {"webp"}, {"webp", "avif"}},
       lib \in {LibThrows} \cup LibYields({WebpBytes}, Dims) :
        Apply("sharpGenerate", "", Options(FALSE, keys, suffix), lib,
              sharpGenerate(NextInput, Options(FALSE, keys, suffix), lib))

SvgoMinifyCall ==
    \E lib \in {LibThrows} \cup LibYields({UnknownBytes}, {0}) :
        Apply("svgoMinify", "", NoOptions, lib, svgoMinify(NextInput, lib))

AdapterInit ==
    /\ arg \in {WorkerResult(f, PngBytes, List(1, <<>>), List(1, <<>>), NoInfo) :
                    f \in FileNames}
    /\ ret = [kind |-> "none", item |-> NoItem, fault |-> "", libFailed |-> FALSE]
    /\ before = NoItem
    /\ call = [adapter |-> "", config |-> "", options |-> NoOptions, lib |-> LibThrows]
    /\ steps = 0
    /\ origin = NoItem

\* ------------------------------------------------------ the squoosh pool
\* lines 745-758: new ImagePool(threads)
squooshImagePoolCreate(shared) ==
    Append(pools, [shared |-> shared, state |-> "open", closes |-> 0])

\* ImagePool.close() is called: the pool starts to close
CloseCalled(ps, id) ==
    [ps EXCEPT ![id].state = IF @ = "closed" THEN "closed" ELSE "closing",
               ![id].closes = @ + 1]
\* the promise of ImagePool.close() resolves: the pool has closed
CloseResolved(ps, id) == [ps EXCEPT ![id].state = "closed"]

PoolFrame == UNCHANGED <<thrVars, adVars, utilVars, memoVars>>
NoCall == [pc |-> "idle", isReusePool |-> FALSE, imagePool |-> 0, settled |-> ""]
\* the calls are alike and so are the teardowns: they are made in the order
\* of their numbers
IsNextCall(c) == calls[c].pc = "idle" /\ \A b \in 1..(c - 1) : calls[b].pc # "idle"
IsNextTeardown(d) ==
    teardowns[d].pc = "idle" /\ \A b \in 1..(d - 1) : teardowns[b].pc # "idle"

\* lines 760-773
squooshImagePoolSetup ==
    /\ PoolFrame
    /\ IF pool = 0
       THEN /\ Len(pools) < MaxPools
            /\ pools' = squooshImagePoolCreate(TRUE)
            /\ pool' = Len(pools) + 1
       ELSE UNCHANGED <<pool, pools>>
    /\ UNCHANGED <<calls, teardowns>>

\* lines 775-777: squooshImagePoolTeardown up to `await pool.close()`
TeardownStart(d) ==
    /\ PoolFrame
    /\ IsNextTeardown(d)
    /\ IF pool # 0
       THEN /\ pools' = CloseCalled(pools, pool)
            /\ teardowns' = [teardowns EXCEPT ![d] = [pc |-> "closing", closing |-> pool]]
       ELSE /\ teardowns' = [teardowns EXCEPT ![d] = [pc |-> "done", closing |-> 0]]
            /\ UNCHANGED pools
    /\ UNCHANGED <<pool, calls>>

\* lines 777-781: the close has resolved; pool = undefined
TeardownResume(d) ==
    /\ PoolFrame
    /\ teardowns[d].pc = "closing"
    /\ pools' = CloseResolved(pools, teardowns[d].closing)
    /\ pool' = 0
    /\ teardowns' = [teardowns EXCEPT ![d].pc = "done"]
    /\ UNCHANGED calls

\* lines 906-911: squooshMinify returns null for an extension without encoder
\* before it touches a pool
MinifySkips(c) ==
    /\ PoolFrame
    /\ IsNextCall(c)
    /\ calls' = [calls EXCEPT ![c] = [NoCall EXCEPT !.pc = "done", !.settled = "null"]]
    /\ UNCHANGED <<pool, pools, teardowns>>

\* lines 793-816 and 913-939: the call takes the shared pool or creates its
\* own, ingests the image and awaits preprocess(), if some option names a
\* preprocessor, or else encode()
CallStart(c, preproc) ==
    /\ PoolFrame
    /\ IsNextCall(c)
    /\ pool = 0 => Len(pools) < MaxPools
    /\ pools' = IF pool # 0 THEN pools ELSE squooshImagePoolCreate(FALSE)
    /\ calls' = [calls EXCEPT ![c] =
                    [pc |-> IF preproc THEN "preprocess" ELSE "encode",
                     isReusePool |-> pool # 0,
                     imagePool |-> IF pool # 0 THEN pool ELSE Len(pools) + 1,
                     settled |-> ""]]
    /\ UNCHANGED <<pool, teardowns>>

\* lines 809-811 and 928-930: await image.preprocess(...) resolves, or it
\* rejects and the call rejects with it
PreprocessSettles(c, ok) ==
    /\ PoolFrame
    /\ calls[c].pc = "preprocess"
    /\ calls' = IF ok THEN [calls EXCEPT ![c].pc = "encode"]
                ELSE [calls EXCEPT ![c].pc = "done", ![c].settled = "rejected"]
    /\ UNCHANGED <<pool, pools, teardowns>>

\* lines 815-834 and 938-957: await image.encode(...) resolves or rejects; a
\* call with its own pool then awaits imagePool.close()
EncodeSettles(c, ok) ==
    /\ PoolFrame
    /\ calls[c].pc = "encode"
    /\ IF calls[c].isReusePool
       THEN /\ calls' = [calls EXCEPT ![c].pc = "done",
                                      ![c].settled = IF ok THEN "returned" ELSE "null"]
            /\ UNCHANGED pools
       ELSE /\ calls' = [calls EXCEPT ![c].pc = IF ok THEN "close" ELSE "closeInCatch"]
            /\ pools' = CloseCalled(pools, calls[c].imagePool)
    /\ UNCHANGED <<pool, teardowns>>

\* lines 819, 833, 942, 956: await imagePool.close() resolves and the call
\* goes on to its return
CloseSettles(c) ==
    /\ PoolFrame
    /\ calls[c].pc \in {"close", "closeInCatch"}
    /\ pools' = CloseResolved(pools, calls[c].imagePool)
    /\ calls' = [calls EXCEPT ![c].pc = "done",
                              ![c].settled = IF calls[c].pc = "close" THEN "returned"
                                             ELSE "null"]
    /\ UNCHANGED <<pool, teardowns>>

PoolInit ==
    /\ pool = 0
    /\ pools = <<>>
    /\ calls = [c \in 1..MaxCalls |-> NoCall]
    /\ teardowns = [d \in 1..MaxTeardowns |-> [pc |-> "idle", closing |-> 0]]

PoolIdle ==
    /\ pool = 0
    /\ pools = <<>>
    /\ calls = <<>>
    /\ teardowns = <<>>

\* ------------------------------------------------------- the pure helpers
\* The buffers handed to fileTypeFromBuffer. A PNG file is its signature, the
\* 25 bytes of the IHDR chunk and then chunks; the chunks are cut down to the
\* bytes the sniffer looks for: a chunk type or a byte of anything else.
IDAT == <<\H49, \H44, \H41, \H54>>
acTL == <<\H61, \H63, \H54, \H4c>>
Zeros(k) == [j \in 1..k |-> 0]
Chunks == {IDAT, acTL, <<0>>}

RECURSIVE Concat(_)
Concat(ss) == IF ss = <<>> THEN <<>> ELSE Head(ss) \o Concat(Tail(ss))

\* what follows the first 33 bytes
Bodies == {Concat(ss) : ss \in UNION {[1..k -> Chunks] : k \in 0..MaxChunks}}
\* the first bytes of a PNG file: a plain IHDR chunk, one with the bytes of
\* acTL or of IDAT inside its first 33 bytes, and one where acTL starts at
\* offset 32
PngHeads ==
    { PngBytes \o Zeros(25),
      PngBytes \o Zeros(4) \o acTL \o Zeros(17),
      PngBytes \o Zeros(4) \o IDAT \o Zeros(17),
      PngBytes \o Zeros(24) \o acTL }
ShortBuffers == {<<>>} \cup {<<b>> : b \in {\H00, \H42, \H89, \Hff}}
OtherBuffers ==
    { PngBytes, WebpBytes, UnknownBytes, <<\Hff, \Hd8, \Hff>>, <<\H42, \H4d>>,
      <<\H00, \H00, \H01, \H00>> }
\* buffers with a TIFF byte-order header: the header, the four bytes at
\* offset 4, the four bytes at offset 8 and, or not, the twelve bytes that
\* end the arw pattern
TiffBuffers ==
    {TiffLE, TiffBE, TiffLE \o Zeros(4)} \cup
    { h \o o \o e \o t :
        h \in {TiffLE, TiffBE},
        o \in {<<\H08, \H00, \H00, \H00>>, <<\H10, \Hfb, \H86, \H01>>, Zeros(4)},
        e \in {<<\H43, \H52, \H00, \H00>>, <<\H2d, \H00, \Hfe, \H00>>,
               <<\H27, \H00, \Hfe, \H00>>, <<\H1c, \H00, \Hfe, \H00>>,
               <<\H57, \H45, \H42, \H50>>, <<\H00, \H00, \Hfe, \H00>>, Zeros(4)},
        t \in {<<>>, <<\H04, \H00, \H01, \H00, \H00, \H00, \H01, \H00, \H00,
                       \H00, \H03, \H01>>} }
\* buffers with "ftyp" at offset 4: the four bytes before it (a box size or
\* the first bytes of another format), then the brand: a known one, an
\* unknown one, one cut short, one with a NUL, one whose first byte fails
\* the mask of line 375
FtypBuffers ==
    { p \o Bytes_ftyp \o b :
        p \in {<<\H00, \H00, \H00, \H18>>, <<\H00, \H00, \H01, \H00>>,
               <<\H00, \H00, \H02, \H00>>, <<\H42, \H50, \H47, \Hfb>>,
               <<\Hff, \H0a, \H00, \H00>>, <<\Hff, \Hd8, \Hff, \H00>>,
               <<\H42, \H4d, \H00, \H00>>, TiffLE},
        b \in {Bytes_avif, Bytes_mif1, Bytes_msf1, Bytes_heic, Bytes_heix, Bytes_hevc,
               Bytes_hevx, <<\H6d, \H70, \H34, \H32>>, <<\H61, \H76, \H69, \H00>>,
               <<\H57, \H45, \H42, \H50>>, <<\H61, \H76>>, <<>>,
               <<\H1c, \H00, \Hfe, \H00>>, Bytes_avif \o Zeros(4)} }
Buffers ==
    {h \o b : h \in PngHeads, b \in Bodies} \cup ShortBuffers \cup OtherBuffers
        \cup TiffBuffers \cup FtypBuffers

\* lines 147-153: the kinds of value a caller may pass; the first three hold
\* bytes, a string does not
ByteTypes == {"Uint8Array", "Buffer", "ArrayBuffer"}
InputTypes == ByteTypes \cup {"string"}
IsUint8ArrayOnly(input) == input.type = "Uint8Array"
IsByteBuffer(input) == input.type \in ByteTypes

NoSniff == [kind |-> "none", fileType |-> NoMatch]
NoName == [kind |-> "none", filename |-> <<>>]

\* lines 146-479: lines 147-157 throw a TypeError for a value that holds no
\* bytes; line 159 views an ArrayBuffer as a Uint8Array
FileTypeFromBufferCall ==
    /\ sniffOut = NoSniff
    /\ sniffIn.type # ""
    /\ sniffOut' = IF ~IsByteBuffer(sniffIn)
                   THEN [kind |-> "threw", fileType |-> NoMatch]
                   ELSE [kind |-> "returned", fileType |-> fileTypeFromBuffer(sniffIn.bytes)]
    /\ UNCHANGED <<sniffIn, nameIn, nameOut>>
    /\ UNCHANGED <<thrVars, adVars, poolVars, memoVars>>

\* the file names handed to replaceFileExtension: up to MaxNameLen of a name,
\* ".", "/" and "\"
NameChars == {"img", Dot, Sep, Backslash}
PathNames == UNION {[1..k -> NameChars] : k \in 0..MaxNameLen}

\* lines 20-41
ReplaceFileExtensionCall ==
    /\ nameOut = NoName
    /\ nameIn.ext # ""
    /\ nameOut' = [kind |-> "returned",
                   filename |-> replaceFileExtension(nameIn.filename, nameIn.ext)]
    /\ UNCHANGED <<sniffIn, sniffOut, nameIn>>
    /\ UNCHANGED <<thrVars, adVars, poolVars, memoVars>>

UtilInit ==
    /\ sniffOut = NoSniff
    /\ nameOut = NoName
    /\ \/ /\ sniffIn \in [type : InputTypes, bytes : Buffers]
          /\ nameIn = [filename |-> <<>>, ext |-> ""]
       \/ /\ sniffIn = [type |-> "", bytes |-> <<>>]
          /\ nameIn \in [filename : PathNames, ext : {"webp", "avif"}]

UtilIdle ==
    /\ sniffIn = [type |-> "", bytes |-> <<>>]
    /\ sniffOut = NoSniff
    /\ nameIn = [filename |-> <<>>, ext |-> ""]
    /\ nameOut = NoName

\* ------------------------------------------------------------------ memoize
\* lines 486-505.  The function memoize returns closes over cache, result and
\* fn.  fn is the caller's: an invocation of it ends by returning a value or by
\* throwing, and while it runs it may itself call the memoized function.
FnResults == {"a", "b", "undefined"}
MemoFrame == UNCHANGED <<thrVars, adVars, poolVars, utilVars>>

\* lines 492-494: a call that finds cache set returns result at once
MemoizedReturnsCached ==
    /\ memoCalls < MaxMemoCalls
    /\ cache
    /\ memoCalls' = memoCalls + 1
    /\ ended' = Append(ended, [kind |-> "returned", value |-> cachedResult])
    /\ reentered' = (reentered \/ running > 0)
    /\ UNCHANGED <<cache, cachedResult, fn, running, fnReturned, invoked>>
    /\ MemoFrame

\* lines 492 and 496: a call that finds cache unset invokes fn
MemoizedInvokesFn ==
    /\ memoCalls < MaxMemoCalls
    /\ ~cache
    /\ fn = "function"
    /\ memoCalls' = memoCalls + 1
    /\ running' = running + 1
    /\ invoked' = invoked + 1
    /\ reentered' = (reentered \/ running > 0)
    /\ UNCHANGED <<cache, cachedResult, fn, ended, fnReturned>>
    /\ MemoFrame

\* lines 496-503: fn returns v to the innermost call waiting for it, which
\* stores it, sets cache, drops fn and returns v
FnReturns(v) ==
    /\ running > 0
    /\ running' = running - 1
    /\ cachedResult' = v
    /\ cache' = TRUE
    /\ fn' = "undefined"
    /\ ended' = Append(ended, [kind |-> "returned", value |-> v])
    /\ fnReturned' = Append(fnReturned, v)
    /\ UNCHANGED <<memoCalls, invoked, reentered>>
    /\ MemoFrame

FnThrowsButCaches ==
    /\ running > 0
    /\ running' = running - 1
    /\ cache' = TRUE
    /\ fn' = "undefined"
    /\ ended' = Append(ended, [kind |-> "threw", value |-> "undefined"])
    /\ UNCHANGED <<cachedResult, memoCalls, fnReturned, invoked, reentered>>
    /\ MemoFrame

\* line 496: fn throws; the exception leaves the innermost call before lines
\* 497-501 run
FnThrows ==
    /\ running > 0
    /\ running' = running - 1
    /\ ended' = Append(ended, [kind |-> "threw", value |-> "undefined"])
    /\ UNCHANGED <<cache, cachedResult, fn, memoCalls, fnReturned, invoked, reentered>>
    /\ MemoFrame

\* lines 487-489: the state memoize(fn) leaves
MemoInit ==
    /\ cache = FALSE
    /\ cachedResult = "undefined"
    /\ fn = "function"
    /\ running = 0
    /\ memoCalls = 0
    /\ ended = <<>>
    /\ fnReturned = <<>>
    /\ invoked = 0
    /\ reentered = FALSE

\* ------------------------------------------------------------ specifications
\* the state of a part of the module that a specification does not exercise
ThrottleIdle ==
    /\ limit = [isInteger |-> TRUE, num |-> 1]
    /\ tasksOk = TRUE
    /\ n = 0
    /\ pc = "idle"
    /\ i = 0
    /\ entriesNext = 0
    /\ tasksFulfilled = 0
    /\ result = <<>>
    /\ taskState = <<>>
    /\ produced = <<>>
    /\ jobs = <<>>
    /\ batch = [state |-> "pending", value |-> <<>>, reason |-> Undefined]
    /\ started = <<>>
    /\ settleOrder = <<>>
    /\ firstFailed = -1

AdapterIdle ==
    /\ arg = NoItem
    /\ ret = [kind |-> "none", item |-> NoItem, fault |-> "", libFailed |-> FALSE]
    /\ before = NoItem
    /\ call = [adapter |-> "", config |-> "", options |-> NoOptions, lib |-> LibThrows]
    /\ steps = 0
    /\ origin = NoItem

\* throttleAll
Init == ThrottleInit /\ AdapterIdle /\ PoolIdle /\ UtilIdle /\ MemoInit

Next ==
    \/ Call
    \/ LoopStep
    \/ ExecutorReturn
    \/ \E t \in Tasks, v \in Values : TaskFulfils(t, v)
    \/ \E t \in Tasks : TaskRejects(t)
    \/ OnFulfilled
    \/ OnRejected

Spec == Init /\ [][Next]_vars

\* throttleAll where the event loop runs: the call and its executor run to
\* their end, every queued reaction job is run, and every task that was
\* started settles
Settles(t) == t \in Tasks /\ ((\E v \in Values : TaskFulfils(t, v)) \/ TaskRejects(t))
Fairness ==
    /\ WF_vars(Call)
    /\ WF_vars(LoopStep)
    /\ WF_vars(ExecutorReturn)
    /\ WF_vars(OnFulfilled)
    /\ WF_vars(OnRejected)
    /\ \A t \in 0..(MaxTasks - 1) : WF_vars(Settles(t))
LiveSpec == Init /\ [][Next]_vars /\ Fairness

\* the adapters
AdapterSpecInit == AdapterInit /\ ThrottleIdle /\ PoolIdle /\ UtilIdle /\ MemoInit

AdapterNext ==
    \/ ImageminMinifyCall
    \/ ImageminGenerateCall
    \/ SquooshMinifyCall
    \/ SquooshGenerateCall
    \/ SharpMinifyCall
    \/ SharpGenerateCall
    \/ SvgoMinifyCall

AdapterSpec == AdapterSpecInit /\ [][AdapterNext]_vars

\* the squoosh pool
PoolSpecInit == PoolInit /\ ThrottleIdle /\ AdapterIdle /\ UtilIdle /\ MemoInit

PoolNext ==
    \/ squooshImagePoolSetup
    \/ \E d \in 1..MaxTeardowns : TeardownStart(d)
    \/ \E d \in 1..MaxTeardowns : TeardownResume(d)
    \/ \E c \in 1..MaxCalls : MinifySkips(c)
    \/ \E c \in 1..MaxCalls, preproc \in BOOLEAN : CallStart(c, preproc)
    \/ \E c \in 1..MaxCalls, ok \in BOOLEAN : PreprocessSettles(c, ok)
    \/ \E c \in 1..MaxCalls, ok \in BOOLEAN : EncodeSettles(c, ok)
    \/ \E c \in 1..MaxCalls : CloseSettles(c)

PoolSpec == PoolSpecInit /\ [][PoolNext]_vars

\* the pure helpers
UtilSpecInit == UtilInit /\ ThrottleIdle /\ AdapterIdle /\ PoolIdle /\ MemoInit

UtilNext ==
    \/ FileTypeFromBufferCall
    \/ ReplaceFileExtensionCall

UtilSpec == UtilSpecInit /\ [][UtilNext]_vars

\* one memoized function and the calls of it
MemoSpecInit == MemoInit /\ ThrottleIdle /\ AdapterIdle /\ PoolIdle /\ UtilIdle

MemoNext ==
    \/ MemoizedReturnsCached
    \/ MemoizedInvokesFn
    \/ \E v \in FnResults : FnReturns(v)
    \/ FnThrows

MemoSpec == MemoSpecInit /\ [][MemoNext]_vars

\* ================================================================== claims

\* tasks started whose promise has not settled
Running == {t \in Tasks : taskState[t] = "running"}
\* tasks whose reaction job (onFulfilled or reject) has run
Handled == {t \in Tasks : taskState[t] \in {"fulfilled", "rejected"} /\ t \notin Range(jobs)}
Position(seq, x) == CHOOSE k \in DOMAIN seq : seq[k] = x

\* C1: at every point of a throttleAll(limit, tasks) run with a positive
\* integer limit, also after a task has failed, the number of tasks started
\* and not yet settled is at most limit.
C1_AtMostLimitRunning ==
    pc \in {"loop", "async"} => Cardinality(Running) <= limit.num

\* after a failure was delivered, every slot but the failed one is busy, one
\* of them with a task taken from the queue
C1_Witness ==
    /\ batch.state = "rejected"
    /\ limit.num >= 2
    /\ Cardinality(Running) = limit.num - 1
    /\ \E t \in Running : t >= limit.num

\* C2: when all n tasks fulfil, the batch resolves with exactly n results and
\* slot i holds the value task i produced, whatever the completion order.
C2_ResultsInInputOrder ==
    /\ batch.state = "resolved" =>
            /\ Len(batch.value) = n
            /\ \A t \in Tasks : batch.value[t + 1] = produced[t]
    /\ (pc = "async" /\ Handled = Tasks /\ \A t \in Tasks : taskState[t] = "fulfilled")
            => batch.state = "resolved"

\* resolved although the tasks completed in another order than they were
\* given, with different values
C2_Witness ==
    /\ batch.state = "resolved"
    /\ n >= 2
    /\ settleOrder[1] # 0
    /\ produced[0] # produced[1]

\* C3: once a started task has failed and its failure has been delivered, the
\* batch is rejected with the failure of the first task that failed, whether
\* or not other tasks are still in flight.
C3_RejectsWithFirstFailure ==
    (\E t \in Handled : taskState[t] = "rejected") =>
        /\ batch.state = "rejected"
        /\ batch.reason = Reason(firstFailed)

\* rejected with the first failure while a sibling is still running and a
\* second failure has been delivered too
C3_Witness ==
    /\ batch.state = "rejected"
    /\ Running # {}
    /\ \E t \in Handled : t # firstFailed /\ taskState[t] = "rejected"

\* C4: whenever the batch is resolved, every task has fulfilled and has its
\* result in its slot, tasksFulfilled equals the number of tasks and no task
\* has failed.
C4_ResolvedOnlyWhenAllFulfilled ==
    batch.state = "resolved" =>
        /\ tasksFulfilled = n
        /\ firstFailed = -1
        /\ \A t \in Tasks :
              /\ taskState[t] = "fulfilled"
              /\ t \in Handled
              /\ t + 1 <= Len(result)
              /\ result[t + 1] = produced[t]

\* resolved after three tasks with room for more than were given
C4_Witness ==
    /\ batch.state = "resolved"
    /\ n >= 2
    /\ limit.num > n

\* C5: with limit = 1 the tasks are started in input order, a task is started
\* only after every earlier task has fulfilled, and no two are in flight
\* together.
C5_LimitOneIsSequential ==
    (pc \in {"loop", "async"} /\ limit.num = 1) =>
        /\ Cardinality(Running) <= 1
        /\ \A k \in DOMAIN started : started[k] = k - 1
        /\ \A t \in Tasks : taskState[t] # "queued" =>
              \A s \in 0..(t - 1) : taskState[s] = "fulfilled" /\ s \in Handled

\* the third task of a limit-1 run is in flight
C5_Witness ==
    /\ limit.num = 1
    /\ n >= 3
    /\ taskState[2] = "running"

Adapters == {"imageminMinify", "imageminGenerate", "squooshMinify", "squooshGenerate",
             "sharpMinify", "sharpGenerate", "svgoMinify"}

\* C7: when a call into the external library fails during an adapter call,
\* the call returns null and the item it was given has exactly one more
\* error, naming its file, and is otherwise as before; the call never rejects
\* because of the library.
C7_LibraryFailureBecomesItemError ==
    (call.adapter \in Adapters /\ ret.libFailed) =>
        /\ ret.kind = "null"
        /\ arg = PushError(before, ErrorWith(before.filename))

\* C8: imageminMinify, when the bytes it got back sniff as another format than
\* the extension of the file name: for a local file name it returns null and
\* adds one warning and no error, for a remote URL it returns a result and
\* adds no warning.
RemoteURL(filename) ==
    /\ Len(filename) >= 4
    /\ filename[1] \in Words
    /\ filename[2] = Colon /\ filename[3] = Sep /\ filename[4] = Sep
C8_MinifyMismatchLocalAndRemote ==
    ( /\ call.adapter = "imageminMinify"
      /\ call.config = "ok"
      /\ ~call.lib.throws
      /\ fileTypeFromBuffer(call.lib.out).ext # ""
      /\ fileTypeFromBuffer(call.lib.out).ext # inputExt(before.filename) ) =>
        IF RemoteURL(before.filename)
        THEN /\ ret.kind = "item"
             /\ arg = before
             /\ ret.item.warnings.elems = before.warnings.elems
        ELSE /\ ret.kind = "null"
             /\ arg = PushWarning(before, WarnUseGenerate(before.filename))

\* C9: a generate adapter called with no or with several target formats in
\* encodeOptions returns null and adds exactly one error; with exactly one,
\* the result it returns has the extension of the produced format.
ProducedExtension ==
    IF call.adapter = "squooshGenerate"
    THEN SquooshExtension(CHOOSE c \in call.options.keys : TRUE)
    ELSE CHOOSE f \in call.options.keys : TRUE
C9_GenerateTargetFormatCount ==
    call.adapter \in {"sharpGenerate", "squooshGenerate"} =>
        /\ Cardinality(call.options.keys) # 1 =>
              /\ ret.kind = "null"
              /\ Len(arg.errors.elems) = Len(before.errors.elems) + 1
              /\ [arg EXCEPT !.errors.elems = before.errors.elems] = before
        /\ (Cardinality(call.options.keys) = 1 /\ ret.kind = "item") =>
              inputExt(ret.item.filename) = ProducedExtension

\* C10: the shared pool is never closed while in use: a call that picked up
\* the shared pool and is between ingesting its image and the end of its
\* encode always finds that pool open, so no close of it has begun.
InFlight(c) == calls[c].pc \in {"preprocess", "encode"}
C10_SharedPoolOpenWhileInUse ==
    \A c \in 1..MaxCalls :
        (InFlight(c) /\ calls[c].isReusePool) => pools[calls[c].imagePool].state = "open"

\* C11: a squoosh call that started while a shared pool existed never closes
\* that pool, whether it succeeds or fails; a call that created its own pool
\* has closed it exactly once when it returns, on every path out of the call:
\* encode succeeded, encode failed, preprocessing failed.
OwnPool(c) == calls[c].imagePool # 0 /\ ~calls[c].isReusePool
C11_CallClosesItsOwnPoolOnly ==
    /\ [][\A id \in DOMAIN pools :
            (pools[id].shared /\ teardowns' = teardowns) => pools'[id] = pools[id]]_vars
    /\ [](\A c \in 1..MaxCalls :
            (calls[c].pc = "done" /\ OwnPool(c)) =>
                /\ pools[calls[c].imagePool].closes = 1
                /\ pools[calls[c].imagePool].state = "closed")

\* C12: teardown of the shared pool is idempotent: each shared pool is closed
\* at most once, a teardown that finds no pool or finds the pool already
\* being closed by another teardown closes nothing, and a teardown that
\* completes leaves no shared pool set.
Pending(d) == teardowns[d].pc = "closing"
C12_TeardownIdempotent ==
    /\ [](\A id \in DOMAIN pools : pools[id].shared => pools[id].closes <= 1)
    /\ [][\A d \in 1..MaxTeardowns :
            ( /\ teardowns[d].pc = "idle" /\ teardowns'[d].pc # "idle"
              /\ \/ pool = 0
                 \/ \E e \in 1..MaxTeardowns : Pending(e) /\ teardowns[e].closing = pool )
            => pools' = pools]_vars
    /\ [][\A d \in 1..MaxTeardowns :
            (Pending(d) /\ teardowns'[d].pc = "done") => pool' = 0]_vars

\* the four bytes of `marker` lie at offset k of the buffer, all inside it
MarkerAt(b, marker, k) == k >= 0 /\ k + 4 <= Len(b) /\ SubSeq(b, k + 1, k + 4) = marker
HasPngSignature(b) == Len(b) >= 8 /\ SubSeq(b, 1, 8) = PngBytes
IdatOffsets(b) == {k \in 33..Len(b) : MarkerAt(b, IDAT, k)}
Sniffed == sniffOut.kind # "none" /\ IsByteBuffer(sniffIn)

\* C13: for a buffer that starts with the PNG signature and has no IDAT
\* marker at or after offset 33, the sniffer does not throw and answers png,
\* never apng, whatever else the buffer holds.
C13_PngWithoutIdatIsPng ==
    (Sniffed /\ HasPngSignature(sniffIn.bytes) /\ IdatOffsets(sniffIn.bytes) = {}) =>
        /\ sniffOut.kind = "returned"
        /\ sniffOut.fileType = FileType("png", "image/png")

\* C14: for a buffer that starts with the PNG signature the sniffer answers
\* apng exactly when an acTL marker lies at or after offset 33 and wholly
\* before the first IDAT marker, and png in every other case.
FirstIdat(b) == CHOOSE k \in IdatOffsets(b) : \A h \in IdatOffsets(b) : k <= h
ActlBeforeFirstIdat(b) ==
    /\ IdatOffsets(b) # {}
    /\ \E k \in 33..Len(b) : MarkerAt(b, acTL, k) /\ k + 4 <= FirstIdat(b)
C14_ApngIffActlBeforeFirstIdat ==
    (Sniffed /\ HasPngSignature(sniffIn.bytes)) =>
        /\ sniffOut.kind = "returned"
        /\ sniffOut.fileType = IF ActlBeforeFirstIdat(sniffIn.bytes)
                               THEN FileType("apng", "image/apng")
                               ELSE FileType("png", "image/png")

\* C15: for every Uint8Array, Buffer or ArrayBuffer of length 0 or 1,
\* fileTypeFromBuffer returns no match and does not throw.
C15_ShortBufferIsNoMatch ==
    (sniffOut.kind # "none" /\ sniffIn.type \in ByteTypes /\ Len(sniffIn.bytes) < 2) =>
        sniffOut = [kind |-> "returned", fileType |-> NoMatch]

\* an ArrayBuffer of one byte, the first byte of the PNG signature, was sniffed
C15_Witness ==
    /\ sniffIn = [type |-> "ArrayBuffer", bytes |-> <<\H89>>]
    /\ sniffOut = [kind |-> "returned", fileType |-> NoMatch]

\* C16: replaceFileExtension replaces only the extension of the last path
\* segment: if the segment after the last "/" or "\" holds a ".", the result
\* is the file name up to the last "." of that segment, then "." and ext; if
\* it holds none the file name is returned as it is, even when a directory
\* before it holds a ".".
LastSegmentStart(f) ==
    LET seps == {k \in DOMAIN f : f[k] \in {Sep, Backslash}}
    IN  IF seps = {} THEN 1 ELSE 1 + CHOOSE k \in seps : \A h \in seps : k >= h
SegmentDots(f) == {k \in LastSegmentStart(f)..Len(f) : f[k] = Dot}
C16_ReplacesExtensionOfLastSegment ==
    nameOut.kind = "returned" =>
        LET f == nameIn.filename
            dots == SegmentDots(f)
            lastDot == CHOOSE k \in dots : \A h \in dots : k >= h
        IN  nameOut.filename =
                IF dots = {} THEN f
                ELSE [k \in 1..(lastDot + 1) |->
                        IF k < lastDot THEN f[k] ELSE IF k = lastDot THEN Dot ELSE nameIn.ext]

\* a directory with a "." before a last segment without one: unchanged
C16_Witness ==
    /\ nameIn.filename = <<"img", Dot, Sep, "img">>
    /\ nameOut = [kind |-> "returned", filename |-> <<"img", Dot, Sep, "img">>]

\* tasks started whose completion has not been processed by its reaction job
Unprocessed == {t \in Tasks : taskState[t] # "queued" /\ t \notin Handled}

\* C18: once its start-up loop has run, while unstarted tasks remain and no
\* task has failed, throttleAll has exactly min(limit, number of tasks) tasks
\* in flight; the reaction job of a fulfilled task starts the next queued
\* task, in input order, in the same step.
C18_SaturatedWhileTasksRemain ==
    /\ []((pc = "async" /\ entriesNext < n /\ firstFailed = -1) =>
            /\ Cardinality(Unprocessed) = Min(limit.num, n)
            /\ \A k \in DOMAIN started : started[k] = k - 1)
    /\ [][(pc = "async" /\ entriesNext < n /\ firstFailed = -1 /\ jobs # <<>>
            /\ jobs' = Tail(jobs)) =>
                /\ started' = Append(started, entriesNext)
                /\ taskState'[entriesNext] = "running"
                /\ Unprocessed' = (Unprocessed \ {Head(jobs)}) \cup {entriesNext}]_vars

\* the second task was started by the reaction job of the first while a third
\* is still waiting in the queue
C18_Witness ==
    /\ pc = "async"
    /\ limit.num = 1
    /\ firstFailed = -1
    /\ entriesNext = 2
    /\ entriesNext < n
    /\ taskState[1] = "running"
    /\ 0 \in Handled

\* C19: throttleAll called with a limit that is not a positive integer or
\* with tasks that are not a list of functions throws at the call, before any
\* task is started and with nothing settled; no limit is clamped.
C19_InvalidArgumentsThrowAtCall ==
    (pc # "call" /\ (~limit.isInteger \/ limit.num <= 0 \/ ~tasksOk)) =>
        /\ pc = "threw"
        /\ started = <<>>
        /\ entriesNext = 0
        /\ \A t \in Tasks : taskState[t] = "queued"
        /\ batch.state = "pending"

\* the call threw for limit 0 with well-formed tasks
C19_Witness ==
    /\ pc = "threw"
    /\ limit = [isInteger |-> TRUE, num |-> 0]
    /\ tasksOk
    /\ n >= 1

\* C20: a batch always settles: for every positive integer limit and every
\* number of tasks, also none and fewer than limit, when every started task
\* settles the batch resolves or rejects in the end; with no tasks it resolves
\* with the empty list in the first pass of the loop and starts nothing.
C20_BatchAlwaysSettles ==
    /\ <>(pc = "threw" \/ batch.state # "pending")
    /\ []((n = 0 /\ pc \in {"loop", "async"} /\ i >= 1) =>
            /\ batch.state = "resolved"
            /\ batch.value = <<>>
            /\ started = <<>>)

\* the batch of no tasks has resolved with the empty list after limit passes
\* of the loop, limit above one
C20_Witness ==
    /\ n = 0
    /\ limit.num >= 2
    /\ pc = "async"
    /\ batch.state = "resolved"
    /\ batch.value = <<>>

\* C17: a successful adapter step never mutates the caller's item: when an
\* adapter has returned a result, the item it was given is exactly as it was
\* before the call, the warnings and errors of the result hold what the
\* item's hold and are other array objects, and what a following step that
\* fails appends to the result does not show on that item.
C17_SuccessLeavesOriginalAlone ==
    /\ [](ret.kind = "item" =>
            /\ arg = before
            /\ origin = before
            /\ ret.item.warnings.elems = before.warnings.elems
            /\ ret.item.errors.elems = before.errors.elems
            /\ ret.item.warnings.id # before.warnings.id
            /\ ret.item.errors.id # before.errors.id)
    /\ [][(origin # NoItem /\ steps' = steps + 1 /\ ret'.kind # "item") =>
            origin' = origin]_vars

\* a step returned a result and the next step, given that result, failed and
\* appended an error to it; the first item still has no error
C17_Witness ==
    /\ steps = 2
    /\ ret.kind = "null"
    /\ origin # NoItem
    /\ origin.errors.elems = <<>>
    /\ Len(arg.errors.elems) = 1
    /\ arg.errors.id # origin.errors.id
    /\ arg.info.minimized

\* the bytes `bytes` lie at offset k of the buffer, all inside it
BytesAt(b, bytes, k) ==
    k >= 0 /\ k + Len(bytes) <= Len(b) /\ SubSeq(b, k + 1, k + Len(bytes)) = bytes
TiffHeader(b) == BytesAt(b, <<73, 73, 42, 0>>, 0) \/ BytesAt(b, <<77, 77, 0, 42>>, 0)
LittleEndianTiff(b) == BytesAt(b, <<73, 73, 42, 0>>, 0)
\* the raw formats whose rule the buffer matches
RawMatches(b) ==
    (IF TiffHeader(b) /\ BytesAt(b, <<67, 82>>, 8)
     THEN {FileType("cr2", "image/x-canon-cr2")} ELSE {})
    \cup
    (IF /\ LittleEndianTiff(b)
        /\ BytesAt(b, <<16, 251, 134, 1>>, 4) \/ BytesAt(b, <<8, 0, 0, 0>>, 4)
        /\ BytesAt(b, <<0, 254, 0, 4, 0, 1, 0, 0, 0, 1, 0, 0, 0, 3, 1>>, 9)
     THEN {FileType("arw", "image/x-sony-arw")} ELSE {})
    \cup
    (IF /\ LittleEndianTiff(b)
        /\ BytesAt(b, <<8, 0, 0, 0>>, 4)
        /\ BytesAt(b, <<45, 0, 254, 0>>, 8) \/ BytesAt(b, <<39, 0, 254, 0>>, 8)
     THEN {FileType("dng", "image/x-adobe-dng")} ELSE {})
    \cup
    (IF LittleEndianTiff(b) /\ BytesAt(b, <<28, 0, 254, 0>>, 8)
     THEN {FileType("nef", "image/x-nikon-nef")} ELSE {})
WebpAt8(b) == BytesAt(b, <<87, 69, 66, 80>>, 8)

\* C21 as amended: a buffer with a TIFF byte-order header that matches the
\* cr2, arw, dng or nef rule is classified as a raw format whose rule it
\* matches, never as tif; one that matches none of them and does not hold
\* "WEBP" at offset 8 is classified as tif.
C21_RawBeforeTiff ==
    (Sniffed /\ TiffHeader(sniffIn.bytes)) =>
        /\ sniffOut.kind = "returned"
        /\ RawMatches(sniffIn.bytes) # {} => sniffOut.fileType \in RawMatches(sniffIn.bytes)
        /\ (RawMatches(sniffIn.bytes) = {} /\ ~WebpAt8(sniffIn.bytes)) =>
                sniffOut.fileType = FileType("tif", "image/tiff")

\* a buffer that matches the arw rule and one more raw rule was sniffed as arw
C21_Witness ==
    /\ Sniffed
    /\ TiffHeader(sniffIn.bytes)
    /\ Cardinality(RawMatches(sniffIn.bytes)) = 2
    /\ sniffOut.fileType.ext = "arw"

\* C21 as claimed: every buffer with a TIFF header that matches none of the
\* raw rules is classified as tif.
C21_AsClaimed ==
    (Sniffed /\ TiffHeader(sniffIn.bytes)) =>
        /\ RawMatches(sniffIn.bytes) # {} => sniffOut.fileType \in RawMatches(sniffIn.bytes)
        /\ RawMatches(sniffIn.bytes) = {} =>
                sniffOut.fileType = FileType("tif", "image/tiff")

\* "ftyp" at offset 4 and a byte 8 with one of the bits 0x60 set
FtypBox(b) ==
    /\ BytesAt(b, <<102, 116, 121, 112>>, 4)
    /\ Len(b) >= 9
    /\ b[9] \in (32..127) \cup (160..255)
\* the brands the ftyp rule knows, as characters' codes, and what it makes of them
BrandOf(b) == IF Len(b) >= 12 THEN SubSeq(b, 9, 12) ELSE <<>>
KnownBrands ==
    { <<<<97, 118, 105, 102>>, FileType("avif", "image/avif")>>,
      <<<<109, 105, 102, 49>>, FileType("heic", "image/heif")>>,
      <<<<109, 115, 102, 49>>, FileType("heic", "image/heif-sequence")>>,
      <<<<104, 101, 105, 99>>, FileType("heic", "image/heic")>>,
      <<<<104, 101, 105, 120>>, FileType("heic", "image/heic")>>,
      <<<<104, 101, 118, 99>>, FileType("heic", "image/heic-sequence")>>,
      <<<<104, 101, 118, 120>>, FileType("heic", "image/heic-sequence")>> }
\* a rule that comes before the ftyp rule matches a buffer with "ftyp" at offset 4
EarlierRuleMatches(b) ==
    \/ BytesAt(b, <<255, 216, 255>>, 0)         \* jpg
    \/ BytesAt(b, <<71, 73, 70>>, 0)            \* gif
    \/ WebpAt8(b)                               \* webp
    \/ BytesAt(b, <<70, 76, 73, 70>>, 0)        \* flif
    \/ TiffHeader(b)                            \* cr2, nef, tif
    \/ BytesAt(b, <<66, 77>>, 0)                \* bmp
    \/ BytesAt(b, <<73, 73, 188>>, 0)           \* jxr
    \/ BytesAt(b, <<56, 66, 80, 83>>, 0)        \* psd
\* what the rules after the ftyp rule make of a buffer with "ftyp" at offset 4
LaterRules(b) ==
    IF BytesAt(b, <<0, 0, 1, 0>>, 0) THEN FileType("ico", "image/x-icon")
    ELSE IF BytesAt(b, <<0, 0, 2, 0>>, 0) THEN FileType("cur", "image/x-icon")
    ELSE IF BytesAt(b, <<66, 80, 71, 251>>, 0) THEN FileType("bpg", "image/bpg")
    ELSE IF BytesAt(b, <<255, 10>>, 0) THEN FileType("jxl", "image/jxl")
    ELSE NoMatch
FtypAnswer(b) ==
    IF \E k \in KnownBrands : k[1] = BrandOf(b)
    THEN (CHOOSE k \in KnownBrands : k[1] = BrandOf(b))[2]
    ELSE LaterRules(b)

BadPlugins == call.adapter \in {"imageminMinify", "imageminGenerate"} /\ call.config # "ok"
\* the last call was a generate call with no or with several target formats
BadTargets ==
    /\ call.adapter \in {"sharpGenerate", "squooshGenerate"}
    /\ Cardinality(call.options.keys) # 1

\* C23 as amended: a missing or malformed imagemin plugin configuration is
\* fatal to the adapter call: the call rejects with it and nothing is
\* appended to the item's warnings or errors. No or several target formats
\* for a generate call are not fatal: no call rejects with that, and
\* sharpGenerate, and squooshGenerate once its library calls have succeeded,
\* return null and append exactly one error that names the problem.
C23_ConfigurationErrors ==
    /\ BadPlugins =>
        /\ ret.kind = "rejected"
        /\ ret.fault \in {"Error: No plugins found", "InvalidConfigError",
                          "Error: Unknown plugin"}
        /\ arg = before
    /\ BadTargets =>
        /\ ret.kind = "rejected" => (ret.libFailed /\ ret.fault = "external")
        /\ ~ret.libFailed =>
            /\ ret.kind = "null"
            /\ arg.warnings = before.warnings
            /\ arg.errors.elems = Append(before.errors.elems,
                    IF call.options.keys = {} THEN ErrorNoResult(before.filename)
                    ELSE ErrorMultiple(before.filename))

\* a generate call with two target formats, made on the result of an earlier
\* step, returned null and left its one error on that result
C23_Witness ==
    /\ steps = 2
    /\ call.adapter = "sharpGenerate"
    /\ Cardinality(call.options.keys) = 2
    /\ ret.kind = "null"
    /\ arg.errors.elems = <<ErrorMultiple(before.filename)>>
    /\ arg.info.minimized

\* C23 as claimed: every configuration error makes the call reject and
\* leaves the item's warnings and errors as they were.
C23_AsClaimed ==
    (BadPlugins \/ BadTargets) =>
        /\ ret.kind = "rejected"
        /\ arg.warnings = before.warnings
        /\ arg.errors = before.errors

\* the name an adapter enters in the provenance list, and the adapters that
\* generate (the others minify) or measure the produced image
AdapterName ==
    CASE call.adapter \in {"imageminMinify", "imageminGenerate"} -> "imagemin"
      [] call.adapter \in {"squooshMinify", "squooshGenerate"} -> "squoosh"
      [] call.adapter \in {"sharpMinify", "sharpGenerate"} -> "sharp"
      [] OTHER -> "svgo"
Generates == call.adapter \in {"imageminGenerate", "squooshGenerate", "sharpGenerate"}
Measures ==
    call.adapter \in {"squooshMinify", "squooshGenerate", "sharpMinify", "sharpGenerate"}
\* the stage flag is set, the stage's provenance list is the input's with the
\* adapter's name put first, and the key no adapter knows and the other
\* stage's flag and list are as in the input
StageRecorded ==
    LET in == before.info
        out == ret.item.info
    IN  /\ out.other = in.other
        /\ IF Generates
           THEN /\ out.generated
                /\ out.generatedBy = <<AdapterName>> \o in.generatedBy
                /\ out.minimized = in.minimized
                /\ out.minimizedBy = in.minimizedBy
           ELSE /\ out.minimized
                /\ out.minimizedBy = <<AdapterName>> \o in.minimizedBy
                /\ out.generated = in.generated
                /\ out.generatedBy = in.generatedBy

\* C24 as amended: across successful adapter steps info accumulates: every
\* key of the input info but width and height is in the output info with the
\* same value, the stage flag is true and the stage's provenance list is the
\* input's list with the adapter's name put first, so each successful step
\* adds one entry; width and height are kept by the imagemin and svgo
\* adapters and set to the size of the produced image by the sharp and
\* squoosh adapters, also when the input info has them.
C24_InfoAccumulates ==
    ret.kind = "item" =>
        /\ StageRecorded
        /\ IF Measures
           THEN /\ ret.item.info.width = call.lib.dim
                /\ ret.item.info.height = call.lib.dim
           ELSE /\ ret.item.info.width = before.info.width
                /\ ret.item.info.height = before.info.height
        /\ Len(ret.item.info.minimizedBy) + Len(ret.item.info.generatedBy)
                = Len(before.info.minimizedBy) + Len(before.info.generatedBy) + 1

\* a second successful step measured another width than the first had recorded
C24_Witness ==
    /\ steps = 2
    /\ ret.kind = "item"
    /\ Measures
    /\ before.info.width = 10
    /\ ret.item.info.width = 20
    /\ Len(ret.item.info.minimizedBy) + Len(ret.item.info.generatedBy) = 2

\* C24 as claimed: every key and value of the input info, width and height
\* too when the input has them (0 stands for a key the info lacks), is in the
\* output info.
C24_AsClaimed ==
    ret.kind = "item" =>
        /\ StageRecorded
        /\ before.info.width # 0 => ret.item.info.width = before.info.width
        /\ before.info.height # 0 => ret.item.info.height = before.info.height

\* the extensions a minify adapter handles
RasterExtensions ==
    {"avif", "gif", "heic", "heif", "j2c", "j2k", "jp2", "jpeg", "jpg", "jpx",
     "png", "raw", "tif", "tiff", "webp"}
Skips ==
    LET ext == inputExt(before.filename)
    IN  \/ call.adapter = "svgoMinify" /\ ext # "svg"
        \/ call.adapter = "squooshMinify" /\ ext \notin {"jpg", "jpeg", "png", "webp", "avif"}
        \/ call.adapter = "sharpMinify" /\ ext \notin RasterExtensions

\* C25: svgoMinify on a file name that is not .svg, squooshMinify on an
\* extension without encoder and sharpMinify on an extension outside its
\* table return null without calling the encoder and leave the item as it
\* was; sharpGenerate on an input extension it does not support returns null
\* and appends exactly one error.
C25_UnhandledExtensionIsSkipped ==
    /\ Skips =>
        /\ ret.kind = "null"
        /\ ~ret.libFailed
        /\ arg = before
    /\ ( /\ call.adapter = "sharpGenerate"
         /\ inputExt(before.filename) \notin RasterExtensions \cup {"svg"} ) =>
        /\ ret.kind = "null"
        /\ Len(arg.errors.elems) = Len(before.errors.elems) + 1
        /\ [arg EXCEPT !.errors.elems = before.errors.elems] = before

\* sharpMinify skipped an .svg item although the encoder would have failed
C25_Witness ==
    /\ call.adapter = "sharpMinify"
    /\ call.lib = LibThrows
    /\ before.filename = <<"img", Dot, "svg">>
    /\ ret.kind = "null"
    /\ arg = before

\* C26: throttleAll starts each task at most once and in input order, and
\* once the batch has rejected because a task failed it starts no task that
\* was still queued then; only the tasks in flight go on.
C26_NoStartAfterRejection ==
    /\ [](\A k \in DOMAIN started : started[k] = k - 1)
    /\ [][batch.state = "rejected" =>
            /\ started' = started
            /\ \A t \in Tasks : taskState[t] = "queued" => taskState'[t] = "queued"]_vars

\* the calls of the memoized function that ended by returning, and by throwing
ReturnedAt == {k \in DOMAIN ended : ended[k].kind = "returned"}
ThrewAt == {k \in DOMAIN ended : ended[k].kind = "threw"}
\* an invocation of fn has just ended by throwing
FnThrew == Len(ended') = Len(ended) + 1 /\ ended'[Len(ended')].kind = "threw"

\* C27: where fn never calls the memoized function while it runs, fn returns
\* normally at most once; every call that returns, returns the value of that
\* one return; once fn has returned it is not invoked again, so every
\* invocation of fn is one that threw, the one that returned, or one still
\* running, and no call throws after a call returned.  A call in which fn
\* throws leaves cache and result as they were, so cache is still unset, and
\* a call that finds cache unset invokes fn.
C27_MemoizeCachesFirstReturn ==
    /\ [](~reentered =>
            /\ Len(fnReturned) <= 1
            /\ \A k \in ReturnedAt : fnReturned # <<>> /\ ended[k].value = fnReturned[1]
            /\ \A j \in ReturnedAt, k \in ThrewAt : k < j
            /\ invoked = Cardinality(ThrewAt) + Len(fnReturned) + running
            /\ cache = (fnReturned # <<>>))
    /\ [][(fnReturned # <<>> /\ ~reentered') => invoked' = invoked]_vars
    /\ [][FnThrew => /\ cache' = cache
                     /\ cachedResult' = cachedResult
                     /\ (~reentered => ~cache')]_vars
    /\ [][(~cache /\ memoCalls' = memoCalls + 1) => invoked' = invoked + 1]_vars

\* C27 witness: fn threw in the first call, returned in the second, and a
\* third call returned the cached value; fn was invoked twice and no call was
\* made while fn ran
C27_Witness ==
    /\ ~reentered
    /\ running = 0
    /\ Len(ended) = 3
    /\ ended[1].kind = "threw"
    /\ ended[2].kind = "returned"
    /\ ended[3] = ended[2]
    /\ invoked = 2

\* C27 as stated, for every fn: fn returns normally at most once and every
\* call that returns, returns the value of the first return
C27_AsClaimed ==
    [](/\ Len(fnReturned) <= 1
       /\ \A k \in ReturnedAt : fnReturned # <<>> /\ ended[k].value = fnReturned[1])

====
